---- MODULE Spec2Model ----
(***************************************************************************)
(* Direction detection for a twin-sensor gate                              *)
(* (scripts/direction_detection/attempt1.py).                              *)
(*                                                                         *)
(* The detectors are pure functions of a reading list and a Config.  They  *)
(* are written here as operators that follow the Python statement by       *)
(* statement; the state machine draws a reading list and a Config and      *)
(* applies one detector to them.  walk holds the conditioning of one side  *)
(* signal (smoothing, derivative, the rise walk iteration by iteration),   *)
(* harness the locals of main() over a directory of labeled captures.      *)
(*                                                                         *)
(* Arithmetic.  Python floats are modelled as exact rationals:             *)
(*   - smoothed values and derivatives are integers scaled by Scale, the   *)
(*     factorial of the largest smoothing window, so that every window     *)
(*     mean sum/len is an exact integer after scaling;                     *)
(*   - min_rise / 2 is kept as the integer min_rise against doubled        *)
(*     values (weights are scaled by 2);                                   *)
(*   - a center of mass and a confidence are fractions <<num, den>>,       *)
(*     den > 0, compared by cross multiplication; int(x) is the floor.     *)
(* On the small integers used here IEEE doubles order and truncate these   *)
(* quotients exactly as the rationals do, with one exception that is       *)
(* modelled: abs(com_a - com_b) is the difference of two ROUNDED           *)
(* quotients, so when the exact gap is a positive integer k and the        *)
(* centers of mass are not binary fractions the double may fall just       *)
(* below k and int() then yields k - 1 (Python: 32/12 - 20/12 is           *)
(* 0.9999999999999998).  IntGap computes which of the two happens from     *)
(* the rounding errors of the two quotients.                               *)
(***************************************************************************)
EXTENDS Integers, Sequences, FiniteSets, TLC

VARIABLES readings, signals, config, method, result, walk, harness

vars == <<readings, signals, config, method, result, walk, harness>>

(***************************************************************************)
(* Bounds of the model.                                                    *)
(***************************************************************************)
\* longest per-side sample run drawn for the detectors
MaxLen == 5
\* largest smoothing_window drawn
MaxWindow == 2

\* most rows loaded for the aggregator
MaxRows == 3

\* largest number of capture files in the data directory
MaxUnits == 2

\* proximity values one sensor reports in the model
Proximities == {0, 8}
\* min_rise values drawn
MinRises == {8, 10}
\* max_peak_gap_ms values drawn
MaxPeakGaps == {2}
\* side B's sampling drawn: <<first timestamp, stride, number of modules>>;
\* side A is sampled by one module at 1, 2, 3, ...
LayoutsB == {<<0, 1, 2>>, <<1, 1, 1>>, <<2, 1, 1>>, <<0, 2, 1>>, <<1, 2, 1>>}

(***************************************************************************)
(* Generic helpers.                                                        *)
(***************************************************************************)
Abs(x) == IF x < 0 THEN -x ELSE x

MinOf(a, b) == IF a < b THEN a ELSE b

MaxOf(a, b) == IF a > b THEN a ELSE b

SetMin(S) == CHOOSE x \in S : \A y \in S : x <= y

SetMax(S) == CHOOSE x \in S : \A y \in S : x >= y

RECURSIVE Factorial(_)
Factorial(n) == IF n <= 1 THEN 1 ELSE n * Factorial(n - 1)

\* the largest smoothing_window main() declares ("Hybrid Smoothed")
DeclaredMaxWindow == 5

\* scaling of smoothed values: the mean of at most MaxWindow, or
\* DeclaredMaxWindow, integers is k/Scale
Scale == Factorial(MaxOf(MaxWindow, DeclaredMaxWindow))

\* Optional[int]: None is the empty set, a value v is {v}
None == {}

Some(v) == {v}

\* fractions <<num, den>> with den > 0
RatLt(p, q) == p[1] * q[2] < q[1] * p[2]

RatEq(p, q) == p[1] * q[2] = q[1] * p[2]

RatLe(p, q) == p[1] * q[2] <= q[1] * p[2]

\* int(x) for a fraction x >= 0
RatInt(p) == p[1] \div p[2]

\* abs(p - q)
RatAbsDiff(p, q) == <<Abs(p[1] * q[2] - q[1] * p[2]), p[2] * q[2]>>

RECURSIVE Gcd(_, _)
Gcd(a, b) == IF b = 0 THEN a ELSE Gcd(b, a % b)

\* a fraction in lowest terms
Reduce(p) == LET g == Gcd(p[1], p[2]) IN <<p[1] \div g, p[2] \div g>>

RECURSIVE IsPowerOfTwo(_)
IsPowerOfTwo(n) == n = 1 \/ (n > 1 /\ n % 2 = 0 /\ IsPowerOfTwo(n \div 2))

RECURSIVE Pow2(_)
Pow2(e) == IF e <= 0 THEN 1 ELSE 2 * Pow2(e - 1)

\* 2^e mod d
RECURSIVE PowMod2(_, _)
PowMod2(e, d) == IF e <= 0 THEN 1 % d ELSE (2 * PowMod2(e - 1, d)) % d

\* floor(log2(n / d)) for n, d > 0: the binary exponent of the double
RECURSIVE Exponent(_, _)
Exponent(n, d) ==
    IF n >= 2 * d THEN Exponent(n, 2 * d) + 1
    ELSE IF n < d THEN Exponent(2 * n, d) - 1
    ELSE 0

\* fraction bits of a double's significand
MantissaBits == 52

\* The double nearest to a fraction x = n/d > 0 in lowest terms, d no power
\* of two, is  x + RoundErr(x) / (d * 2^p)  for  p = 52 - Exponent(n, d).
RoundErr(x) ==
    LET d == x[2]
        p == MantissaBits - Exponent(x[1], d)
        r == ((x[1] % d) * PowMod2(p, d)) % d
    IN IF 2 * r < d THEN -r ELSE d - r

\* int(abs(p - q)) for p, q >= 0, where p and q are the doubles nearest to
\* the fractions and the subtraction rounds to the nearest double.  Only an
\* exact gap that is a positive integer k can truncate differently: the
\* double difference is  k + n / (d * 2^pb)  and int() gives k - 1 when that
\* rounds to a double below k.
IntGap(p, q) ==
    LET gap == RatAbsDiff(p, q)
        k == RatInt(gap)
        hi == Reduce(IF RatLt(p, q) THEN q ELSE p)
        lo == Reduce(IF RatLt(p, q) THEN p ELSE q)
    IN IF gap[1] % gap[2] # 0 \/ k = 0 \/ IsPowerOfTwo(hi[2]) THEN k
       ELSE LET d == hi[2]
                e_hi == Exponent(hi[1], d)
                e_lo == Exponent(lo[1], d)
                n == RoundErr(hi) * Pow2(e_hi - e_lo) - RoundErr(lo)
                e_k == Exponent(k, 1) - (IF IsPowerOfTwo(k) THEN 1 ELSE 0)
                m == MinOf(e_lo, e_k)
            IN IF n < 0 /\ 2 * (-n) * Pow2(e_lo - m) > d * Pow2(e_k - m)
               THEN k - 1
               ELSE k

Zero == <<0, 1>>

(***************************************************************************)
(* Direction (attempt1.py:20-23).                                          *)
(***************************************************************************)
UNKNOWN == "unknown"

A_TO_B == "a_to_b"

B_TO_A == "b_to_a"

\* SensorReading(timestamp, pcb_id, side, proximity)
SensorReading(ts, pcb, side, prox) ==
    [timestamp |-> ts, pcb_id |-> pcb, side |-> side, proximity |-> prox]

\* DetectionResult
DetectionResult(dir, conf, pta, ptb, gap, amax, bmax) ==
    [direction |-> dir, confidence |-> conf, peak_time_a |-> pta,
     peak_time_b |-> ptb, peak_gap_ms |-> gap,
     side_a_max |-> amax, side_b_max |-> bmax]

\* Config
Config(w, mr, mg) ==
    [smoothing_window |-> w, min_rise |-> mr, max_peak_gap_ms |-> mg]

(***************************************************************************)
(* dict helpers: a dict is a function from its key set.                    *)
(***************************************************************************)
EmptyDict == <<>>

\* d[k] = v written for d[k] = d.get(k, 0) + v: the old value is lost
DictGetDefault(d, k, default) == default

DictGet(d, k, default) == IF k \in DOMAIN d THEN d[k] ELSE default

DictSet(d, k, v) == [x \in (DOMAIN d) \cup {k} |-> IF x = k THEN v ELSE d[x]]

\* sorted(d.keys())
RECURSIVE SortedKeys(_)
SortedKeys(S) ==
    IF S = {} THEN <<>>
    ELSE LET m == SetMin(S) IN <<m>> \o SortedKeys(S \ {m})

\* max(d): the largest key
DictMaxKeys(d) == SetMax(DOMAIN d)

\* max(d.values())
DictMax(d) == SetMax({d[k] : k \in DOMAIN d})

(***************************************************************************)
(* aggregate_by_side (attempt1.py:68-86).                                  *)
(***************************************************************************)
\* an aggregator that drops the readings whose side is neither 2 nor 1
RECURSIVE AggregateFromStrict(_, _, _, _)
AggregateFromStrict(rs, i, side_a, side_b) ==
    IF i > Len(rs) THEN <<side_a, side_b>>
    ELSE LET reading == rs[i]
             ts == reading.timestamp
         IN IF reading.side = 2
            THEN AggregateFromStrict(rs, i + 1,
                     DictSet(side_a, ts, DictGet(side_a, ts, 0) + reading.proximity),
                     side_b)
            ELSE IF reading.side = 1
            THEN AggregateFromStrict(rs, i + 1, side_a,
                     DictSet(side_b, ts, DictGet(side_b, ts, 0) + reading.proximity))
            ELSE AggregateFromStrict(rs, i + 1, side_a, side_b)

RECURSIVE AggregateFrom(_, _, _, _)
AggregateFrom(rs, i, side_a, side_b) ==
    IF i > Len(rs) THEN <<side_a, side_b>>
    ELSE LET reading == rs[i]
             ts == reading.timestamp
         IN IF reading.side = 2
            THEN AggregateFrom(rs, i + 1,
                     DictSet(side_a, ts, DictGet(side_a, ts, 0) + reading.proximity),
                     side_b)
            ELSE AggregateFrom(rs, i + 1, side_a,
                     DictSet(side_b, ts, DictGet(side_b, ts, 0) + reading.proximity))

aggregate_by_side(rs) == AggregateFrom(rs, 1, EmptyDict, EmptyDict)

(***************************************************************************)
(* smooth_signal (attempt1.py:89-100): values scaled by Scale.             *)
(***************************************************************************)
RECURSIVE SumRange(_, _, _, _)
SumRange(signal, timestamps, lo, hi) ==
    IF lo > hi THEN 0
    ELSE signal[timestamps[lo]] + SumRange(signal, timestamps, lo + 1, hi)

\* a moving average centred on the sample: it also takes the samples after it
SmoothSignalCentered(signal, window) ==
    LET timestamps == SortedKeys(DOMAIN signal)
        Mean(i) == LET start_idx == MaxOf(1, i - window + 1)
                       end_idx == MinOf(Len(timestamps), i + window - 1)
                   IN (SumRange(signal, timestamps, start_idx, end_idx) * Scale)
                          \div (end_idx - start_idx + 1)
        ByIndex == [i \in 1..Len(timestamps) |-> Mean(i)]
    IN [ts \in DOMAIN signal |->
           ByIndex[Cardinality({t \in DOMAIN signal : t <= ts})]]

\* a moving average that keeps only the timestamps with a full window
SmoothSignalValid(signal, window) ==
    LET timestamps == SortedKeys(DOMAIN signal)
        Mean(i) == LET start_idx == MaxOf(1, i - window + 1)
                   IN (SumRange(signal, timestamps, start_idx, i) * Scale)
                          \div (i - start_idx + 1)
        ByIndex == [i \in 1..Len(timestamps) |-> Mean(i)]
    IN [ts \in {t \in DOMAIN signal :
                   Cardinality({u \in DOMAIN signal : u <= t}) >= window} |->
           ByIndex[Cardinality({t \in DOMAIN signal : t <= ts})]]

smooth_signal(signal, window) ==
    LET timestamps == SortedKeys(DOMAIN signal)
        Mean(i) == LET start_idx == MaxOf(1, i - window + 1)
                   IN (SumRange(signal, timestamps, start_idx, i) * Scale)
                          \div (i - start_idx + 1)
        ByIndex == [i \in 1..Len(timestamps) |-> Mean(i)]
    IN [ts \in DOMAIN signal |->
           ByIndex[Cardinality({t \in DOMAIN signal : t <= ts})]]

(***************************************************************************)
(* compute_derivative (attempt1.py:103-113).                               *)
(***************************************************************************)
\* the difference stored under prev_ts instead of curr_ts
ComputeDerivativeAtPrev(signal) ==
    LET timestamps == SortedKeys(DOMAIN signal)
    IN IF Len(timestamps) = 0 THEN EmptyDict
       ELSE [ts \in (DOMAIN signal) \ {timestamps[Len(timestamps)]} |->
                LET i == Cardinality({t \in DOMAIN signal : t <= ts})
                IN signal[timestamps[i + 1]] - signal[timestamps[i]]]

compute_derivative(signal) ==
    LET timestamps == SortedKeys(DOMAIN signal)
    IN IF Len(timestamps) = 0 THEN EmptyDict
       ELSE [ts \in (DOMAIN signal) \ {timestamps[1]} |->
                LET i == Cardinality({t \in DOMAIN signal : t <= ts})
                IN signal[timestamps[i]] - signal[timestamps[i - 1]]]

(***************************************************************************)
(* find_rise_start_times (attempt1.py:149-191).  signal and derivative     *)
(* carry values scaled by Scale; a rise is <<start, peak, rise_amount>>    *)
(* with rise_amount scaled by Scale.                                       *)
(***************************************************************************)
\* derivative_threshold: float = 2.0
DerivativeThreshold == 2

\* the amplitude test made against the derivative threshold
QualifiesThreshold(rise_amount, min_rise) ==
    rise_amount >= DerivativeThreshold * Scale

\* the amount compared with > instead of >=
QualifiesStrict(rise_amount, min_rise) == rise_amount > min_rise * Scale

\* if rise_amount >= min_rise, for rise_amount scaled by Scale
Qualifies(rise_amount, min_rise) == rise_amount >= min_rise * Scale

\* one pass of the loop body for 1-based index i >= 2 of timestamps
RiseStep(signal, derivative, timestamps, min_rise, i, st) ==
    LET prev_ts == timestamps[i - 1]
        curr_ts == timestamps[i]
        prev_d == DictGet(derivative, prev_ts, 0)
        curr_d == DictGet(derivative, curr_ts, 0)
        exceeds == curr_d > DerivativeThreshold * Scale
        consecutive_positive ==
            IF exceeds THEN st.consecutive_positive + 1 ELSE 0
        starts == exceeds /\ consecutive_positive >= 2 /\ st.rise_start_ts = None
        start_ts == IF starts THEN Some(timestamps[i - consecutive_positive])
                    ELSE st.rise_start_ts
        start_value == IF starts
                       THEN DictGet(signal, timestamps[i - consecutive_positive], 0)
                       ELSE st.rise_start_value
        is_peak == prev_d > 0 /\ curr_d <= 0 /\ start_ts # None
        peak_value == DictGet(signal, prev_ts, 0)
        rise_amount == peak_value - start_value
        rises == IF is_peak /\ Qualifies(rise_amount, min_rise)
                 THEN Append(st.rises,
                             <<CHOOSE t \in start_ts : TRUE, prev_ts, rise_amount>>)
                 ELSE st.rises
    IN [rise_start_ts |-> IF is_peak THEN None ELSE start_ts,
        rise_start_value |-> start_value,
        consecutive_positive |-> consecutive_positive,
        rises |-> rises]

RECURSIVE RiseWalk(_, _, _, _, _, _)
RiseWalk(signal, derivative, timestamps, min_rise, i, st) ==
    IF i > Len(timestamps) THEN st
    ELSE RiseWalk(signal, derivative, timestamps, min_rise, i + 1,
                  RiseStep(signal, derivative, timestamps, min_rise, i, st))

RiseWalkInit ==
    [rise_start_ts |-> None, rise_start_value |-> 0,
     consecutive_positive |-> 0, rises |-> <<>>]

\* a walk that also records the rise still in progress after the last sample
FindRiseStartTimesFlushed(signal, derivative, min_rise) ==
    LET timestamps == SortedKeys(DOMAIN derivative)
        st == RiseWalk(signal, derivative, timestamps, min_rise, 2, RiseWalkInit)
        last_ts == timestamps[Len(timestamps)]
        rise_amount == DictGet(signal, last_ts, 0) - st.rise_start_value
    IN IF st.rise_start_ts # None /\ Qualifies(rise_amount, min_rise)
       THEN Append(st.rises,
                   <<CHOOSE t \in st.rise_start_ts : TRUE, last_ts, rise_amount>>)
       ELSE st.rises

find_rise_start_times(signal, derivative, min_rise) ==
    RiseWalk(signal, derivative, SortedKeys(DOMAIN derivative), min_rise, 2,
             RiseWalkInit).rises

\* the first rise of the side, whatever its amount
MainRiseFirst(rises) == rises[1]

\* max(rises, key=lambda x: x[2]): the first rise of the largest rise_amount
MainRise(rises) ==
    LET best == SetMax({rises[i][3] : i \in 1..Len(rises)})
    IN rises[SetMin({i \in 1..Len(rises) : rises[i][3] = best})]

(***************************************************************************)
(* calculate_center_of_mass (attempt1.py:194-213).  min_value2 is twice    *)
(* min_value; weights are doubled.  Returns None or Some(<<num, den>>).    *)
(***************************************************************************)
\* total_weight < 10
MinTotalWeight == 10

RECURSIVE SumOver(_, _)
SumOver(f, S) ==
    IF S = {} THEN 0
    ELSE LET x == CHOOSE y \in S : TRUE IN f[x] + SumOver(f, S \ {x})

calculate_center_of_mass(signal, min_value2) ==
    LET weight2 == [ts \in DOMAIN signal |->
                       IF 2 * signal[ts] > min_value2
                       THEN 2 * signal[ts] - min_value2 ELSE 0]
        total_weight2 == SumOver(weight2, DOMAIN signal)
        weighted_sum2 == SumOver([ts \in DOMAIN signal |-> ts * weight2[ts]],
                                 DOMAIN signal)
    IN IF total_weight2 < 2 * MinTotalWeight THEN None
       ELSE Some(<<weighted_sum2, total_weight2>>)

\* the value of a non-None Optional
Val(opt) == CHOOSE v \in opt : TRUE

\* Python truthiness of an Optional[float]: None and 0.0 are false
Truthy(com) == com # None /\ Val(com)[1] # 0

(***************************************************************************)
(* Confidence (attempt1.py:341-344, 426-429, 546-549) as a fraction.       *)
(***************************************************************************)
\* com_gap / 30
ComGapFull == 30
\* rise_gap / 50
RiseGapFull == 50
\* (.. + ..) / 100
SignalFull == 100

\* the sum of the two terms, not their average
ConfidenceSum(gap, full, strength, sscale) ==
    LET g == IF gap[1] >= full * gap[2] THEN <<1, 1>>
             ELSE Reduce(<<gap[1], full * gap[2]>>)
        s == IF strength >= SignalFull * sscale THEN <<1, 1>>
             ELSE Reduce(<<strength, SignalFull * sscale>>)
    IN Reduce(<<g[1] * s[2] + s[1] * g[2], g[2] * s[2]>>)

\* the gap term without its min(1.0, ..)
ConfidenceUnclamped(gap, full, strength, sscale) ==
    LET g == Reduce(<<gap[1], full * gap[2]>>)
        s == IF strength >= SignalFull * sscale THEN <<1, 1>>
             ELSE Reduce(<<strength, SignalFull * sscale>>)
    IN Reduce(<<g[1] * s[2] + s[1] * g[2], 2 * g[2] * s[2]>>)

\* the confidence without its signal-strength term
ConfidenceGapOnly(gap, full, strength, sscale) ==
    LET g == IF gap[1] >= full * gap[2] THEN <<1, 1>>
             ELSE Reduce(<<gap[1], full * gap[2]>>)
    IN Reduce(<<g[1], 2 * g[2]>>)

\* (min(1.0, gap / full) + min(1.0, strength / (100 * sscale))) / 2
\* for gap a fraction <<n, d>> and strength an integer scaled by sscale;
\* the result is in lowest terms, so equal confidences are equal pairs
Confidence(gap, full, strength, sscale) ==
    LET g == IF gap[1] >= full * gap[2] THEN <<1, 1>>
             ELSE Reduce(<<gap[1], full * gap[2]>>)
        s == IF strength >= SignalFull * sscale THEN <<1, 1>>
             ELSE Reduce(<<strength, SignalFull * sscale>>)
    IN Reduce(<<g[1] * s[2] + s[1] * g[2], 2 * g[2] * s[2]>>)

\* an early return that keeps the signal-strength half of the confidence
NoEventSignalConfidence(amax, bmax) ==
    DetectionResult(UNKNOWN, Confidence(Zero, ComGapFull, amax + bmax, 1),
                    None, None, None, amax, bmax)

NoEvent(amax, bmax) == DetectionResult(UNKNOWN, Zero, None, None, None, amax, bmax)

\* the early return reporting the maximum of the side that has readings
MissingSideResultMaxima(side_a, side_b) ==
    NoEvent(IF DOMAIN side_a = {} THEN 0 ELSE DictMax(side_a),
            IF DOMAIN side_b = {} THEN 0 ELSE DictMax(side_b))

\* if not side_a or not side_b: the result with side_a_max=0, side_b_max=0
MissingSideResult(side_a, side_b) == NoEvent(0, 0)

(***************************************************************************)
(* analyze_window (attempt1.py:442-559): the Rise-Start detector.          *)
(***************************************************************************)
\* the tie-break giving equal peaks to A_TO_B
RiseDirectionTieA(rise_start_a, rise_start_b, peak_a, peak_b) ==
    IF rise_start_a < rise_start_b THEN A_TO_B
    ELSE IF rise_start_b < rise_start_a THEN B_TO_A
    ELSE IF peak_a <= peak_b THEN A_TO_B ELSE B_TO_A

\* equal rise starts decided by the later peak
RiseDirectionTieByLaterPeak(rise_start_a, rise_start_b, peak_a, peak_b) ==
    IF rise_start_a < rise_start_b THEN A_TO_B
    ELSE IF rise_start_b < rise_start_a THEN B_TO_A
    ELSE IF peak_a > peak_b THEN A_TO_B ELSE B_TO_A

\* the comparison of the rise starts reversed
RiseDirectionReversed(rise_start_a, rise_start_b, peak_a, peak_b) ==
    IF rise_start_a < rise_start_b THEN B_TO_A
    ELSE IF rise_start_b < rise_start_a THEN A_TO_B
    ELSE IF peak_a < peak_b THEN A_TO_B ELSE B_TO_A

\* Step 6: direction from rise start, ties by peak (attempt1.py:535-544)
RiseDirection(rise_start_a, rise_start_b, peak_a, peak_b) ==
    IF rise_start_a < rise_start_b THEN A_TO_B
    ELSE IF rise_start_b < rise_start_a THEN B_TO_A
    ELSE IF peak_a < peak_b THEN A_TO_B ELSE B_TO_A

\* the gate with a limit one too large
GapRejectedLoose(peak_gap, cfg) == peak_gap > cfg.max_peak_gap_ms + 1

\* the gate rejecting a gap equal to the limit
GapRejectedStrict(peak_gap, cfg) == peak_gap >= cfg.max_peak_gap_ms

\* same-event gate (attempt1.py:521, 312)
GapRejected(peak_gap, cfg) == peak_gap > cfg.max_peak_gap_ms

analyze_window(rs, cfg) ==
    IF Len(rs) = 0 THEN NoEvent(0, 0)
    ELSE
    LET agg == aggregate_by_side(rs)
        side_a == agg[1]
        side_b == agg[2]
    IN IF DOMAIN side_a = {} \/ DOMAIN side_b = {}
       THEN MissingSideResult(side_a, side_b)
       ELSE
       LET side_a_smooth == smooth_signal(side_a, cfg.smoothing_window)
           side_b_smooth == smooth_signal(side_b, cfg.smoothing_window)
           d_a == compute_derivative(side_a_smooth)
           d_b == compute_derivative(side_b_smooth)
           side_a_max == DictMax(side_a)
           side_b_max == DictMax(side_b)
       IN IF DOMAIN d_a = {} \/ DOMAIN d_b = {}
          THEN NoEvent(side_a_max, side_b_max)
          ELSE
          LET rises_a == find_rise_start_times(side_a_smooth, d_a, cfg.min_rise)
              rises_b == find_rise_start_times(side_b_smooth, d_b, cfg.min_rise)
          IN IF Len(rises_a) = 0 \/ Len(rises_b) = 0
             THEN NoEvent(side_a_max, side_b_max)
             ELSE
             LET main_rise_a == MainRise(rises_a)
                 main_rise_b == MainRise(rises_b)
                 rise_start_a == main_rise_a[1]
                 peak_a == main_rise_a[2]
                 rise_amount_a == main_rise_a[3]
                 rise_start_b == main_rise_b[1]
                 peak_b == main_rise_b[2]
                 rise_amount_b == main_rise_b[3]
                 peak_gap == Abs(peak_a - peak_b)
                 rise_gap == Abs(rise_start_a - rise_start_b)
             IN IF GapRejected(peak_gap, cfg)
                THEN DetectionResult(UNKNOWN, Zero, Some(peak_a), Some(peak_b),
                                     Some(peak_gap), side_a_max, side_b_max)
                ELSE DetectionResult(
                         RiseDirection(rise_start_a, rise_start_b, peak_a, peak_b),
                         Confidence(<<rise_gap, 1>>, RiseGapFull,
                                    rise_amount_a + rise_amount_b, Scale),
                         Some(rise_start_a), Some(rise_start_b), Some(rise_gap),
                         side_a_max, side_b_max)

(***************************************************************************)
(* analyze_window_com (attempt1.py:357-439): the Center-of-Mass detector.  *)
(***************************************************************************)
\* direction from the centers of mass (attempt1.py:421-424, 336-339)
\* the comparison of the centers of mass reversed
ComDirectionReversed(com_a, com_b) == IF RatLt(com_a, com_b) THEN B_TO_A ELSE A_TO_B

\* equal centers of mass given to A_TO_B
ComDirectionTieA(com_a, com_b) == IF RatLe(com_a, com_b) THEN A_TO_B ELSE B_TO_A

ComDirection(com_a, com_b) == IF RatLt(com_a, com_b) THEN A_TO_B ELSE B_TO_A

\* the Hybrid return written as the Center-of-Mass one: ... else None
IntOrElseNone(com, other) == IF Truthy(com) THEN Some(RatInt(Val(com))) ELSE None

\* int(com) if com else other
IntOrElse(com, other) == IF Truthy(com) THEN Some(RatInt(Val(com))) ELSE other

\* a Center-of-Mass detector with the same-event gate of the other two,
\* applied to the gap between the centers of mass
AnalyzeWindowComGated(rs, cfg) ==
    IF Len(rs) = 0 THEN NoEvent(0, 0)
    ELSE
    LET agg == aggregate_by_side(rs)
        side_a == agg[1]
        side_b == agg[2]
    IN IF DOMAIN side_a = {} \/ DOMAIN side_b = {}
       THEN MissingSideResult(side_a, side_b)
       ELSE
       LET side_a_max == DictMax(side_a)
           side_b_max == DictMax(side_b)
           com_a == calculate_center_of_mass(side_a, cfg.min_rise)
           com_b == calculate_center_of_mass(side_b, cfg.min_rise)
       IN IF com_a = None \/ com_b = None
          THEN DetectionResult(UNKNOWN, Zero, IntOrElse(com_a, None),
                               IntOrElse(com_b, None), None,
                               side_a_max, side_b_max)
          ELSE
          LET com_gap == RatAbsDiff(Val(com_a), Val(com_b))
          IN IF \/ side_a_max < cfg.min_rise \/ side_b_max < cfg.min_rise
                \/ RatLt(<<cfg.max_peak_gap_ms, 1>>, com_gap)
             THEN DetectionResult(UNKNOWN, Zero, Some(RatInt(Val(com_a))),
                                  Some(RatInt(Val(com_b))),
                                  Some(IntGap(Val(com_a), Val(com_b))),
                                  side_a_max, side_b_max)
             ELSE DetectionResult(
                      ComDirection(Val(com_a), Val(com_b)),
                      Confidence(com_gap, ComGapFull, side_a_max + side_b_max, 1),
                      Some(RatInt(Val(com_a))), Some(RatInt(Val(com_b))),
                      Some(IntGap(Val(com_a), Val(com_b))),
                      side_a_max, side_b_max)

analyze_window_com(rs, cfg) ==
    IF Len(rs) = 0 THEN NoEvent(0, 0)
    ELSE
    LET agg == aggregate_by_side(rs)
        side_a == agg[1]
        side_b == agg[2]
    IN IF DOMAIN side_a = {} \/ DOMAIN side_b = {}
       THEN MissingSideResult(side_a, side_b)
       ELSE
       LET side_a_max == DictMax(side_a)
           side_b_max == DictMax(side_b)
           com_a == calculate_center_of_mass(side_a, cfg.min_rise)
           com_b == calculate_center_of_mass(side_b, cfg.min_rise)
       IN IF com_a = None \/ com_b = None
          THEN DetectionResult(UNKNOWN, Zero, IntOrElse(com_a, None),
                               IntOrElse(com_b, None), None,
                               side_a_max, side_b_max)
          ELSE
          LET com_gap == RatAbsDiff(Val(com_a), Val(com_b))
          IN IF side_a_max < cfg.min_rise \/ side_b_max < cfg.min_rise
             THEN DetectionResult(UNKNOWN, Zero, Some(RatInt(Val(com_a))),
                                  Some(RatInt(Val(com_b))),
                                  Some(IntGap(Val(com_a), Val(com_b))),
                                  side_a_max, side_b_max)
             ELSE DetectionResult(
                      ComDirection(Val(com_a), Val(com_b)),
                      Confidence(com_gap, ComGapFull, side_a_max + side_b_max, 1),
                      Some(RatInt(Val(com_a))), Some(RatInt(Val(com_b))),
                      Some(IntGap(Val(com_a), Val(com_b))),
                      side_a_max, side_b_max)

(***************************************************************************)
(* analyze_window_hybrid (attempt1.py:238-354): the Hybrid detector.       *)
(***************************************************************************)
\* the fallback with the comparison of the peaks reversed
PeakDirectionReversed(peak_a, peak_b) == IF peak_a < peak_b THEN B_TO_A ELSE A_TO_B

\* a fallback that does not decide between equal peaks
PeakDirectionTieUnknown(peak_a, peak_b) ==
    IF peak_a < peak_b THEN A_TO_B
    ELSE IF peak_b < peak_a THEN B_TO_A
    ELSE UNKNOWN

\* fallback to peak timing (attempt1.py:329-332)
PeakDirection(peak_a, peak_b) == IF peak_a < peak_b THEN A_TO_B ELSE B_TO_A

analyze_window_hybrid(rs, cfg) ==
    IF Len(rs) = 0 THEN NoEvent(0, 0)
    ELSE
    LET agg == aggregate_by_side(rs)
        side_a == agg[1]
        side_b == agg[2]
    IN IF DOMAIN side_a = {} \/ DOMAIN side_b = {}
       THEN MissingSideResult(side_a, side_b)
       ELSE
       LET side_a_max == DictMax(side_a)
           side_b_max == DictMax(side_b)
           side_a_smooth == smooth_signal(side_a, cfg.smoothing_window)
           side_b_smooth == smooth_signal(side_b, cfg.smoothing_window)
           d_a == compute_derivative(side_a_smooth)
           d_b == compute_derivative(side_b_smooth)
       IN IF DOMAIN d_a = {} \/ DOMAIN d_b = {}
          THEN NoEvent(side_a_max, side_b_max)
          ELSE
          LET rises_a == find_rise_start_times(side_a_smooth, d_a, cfg.min_rise)
              rises_b == find_rise_start_times(side_b_smooth, d_b, cfg.min_rise)
          IN IF Len(rises_a) = 0 \/ Len(rises_b) = 0
             THEN NoEvent(side_a_max, side_b_max)
             ELSE
             LET peak_a == MainRise(rises_a)[2]
                 peak_b == MainRise(rises_b)[2]
                 peak_gap == Abs(peak_a - peak_b)
             IN IF GapRejected(peak_gap, cfg)
                THEN DetectionResult(UNKNOWN, Zero, Some(peak_a), Some(peak_b),
                                     Some(peak_gap), side_a_max, side_b_max)
                ELSE
                LET com_a == calculate_center_of_mass(side_a, cfg.min_rise)
                    com_b == calculate_center_of_mass(side_b, cfg.min_rise)
                    fallback == com_a = None \/ com_b = None
                    direction == IF fallback THEN PeakDirection(peak_a, peak_b)
                                 ELSE ComDirection(Val(com_a), Val(com_b))
                    com_gap == IF fallback THEN <<Abs(peak_a - peak_b), 1>>
                               ELSE RatAbsDiff(Val(com_a), Val(com_b))
                IN DetectionResult(
                       direction,
                       Confidence(com_gap, ComGapFull, side_a_max + side_b_max, 1),
                       IntOrElse(com_a, Some(peak_a)),
                       IntOrElse(com_b, Some(peak_b)),
                       Some(IF fallback THEN Abs(peak_a - peak_b)
                            ELSE IntGap(Val(com_a), Val(com_b))),
                       side_a_max, side_b_max)

(***************************************************************************)
(* The inputs drawn.  Side A (side value 2) is sampled by module 1 at      *)
(* 1, 2, 3, ...; side B (side value 1) by the modules and at the           *)
(* timestamps its layout gives, every module reporting the same value.     *)
(***************************************************************************)
RECURSIVE SeqsUpTo(_, _)
SeqsUpTo(S, n) ==
    IF n = 0 THEN {<<>>}
    ELSE LET shorter == SeqsUpTo(S, n - 1)
         IN shorter \cup {Append(s, v) : s \in {t \in shorter : Len(t) = n - 1},
                                          v \in S}

Shapes == SeqsUpTo(Proximities, MaxLen)

Track(shape, side, offset, stride, pcb) ==
    [i \in 1..Len(shape) |->
        SensorReading(offset + stride * (i - 1), pcb, side, shape[i])]

RECURSIVE Tracks(_, _, _, _, _)
Tracks(shape, side, offset, stride, modules) ==
    IF modules = 0 THEN <<>>
    ELSE Tracks(shape, side, offset, stride, modules - 1)
             \o Track(shape, side, offset, stride, modules)

Configs == {Config(w, mr, mg) : w \in 1..MaxWindow, mr \in MinRises,
                                mg \in MaxPeakGaps}

\* both sides sampled equally often, or one side reporting at most once
ShapePairs == {p \in Shapes \X Shapes :
                  Len(p[1]) = Len(p[2]) \/ Len(p[1]) <= 1 \/ Len(p[2]) <= 1}

Windows == {Track(p[1], 2, 1, 1, 1) \o Tracks(p[2], 1, lay[1], lay[2], lay[3]) :
               p \in ShapePairs, lay \in LayoutsB}

(***************************************************************************)
(* The state machine.  A window of readings is given; main() applies to it *)
(* the detector that a configuration's method string names, under that     *)
(* configuration (attempt1.py:603-621).  signals holds the two side        *)
(* signals the detector aggregated from the window.                        *)
(***************************************************************************)
\* Config() defaults (attempt1.py:48-50)
DefaultSmoothingWindow == 3

DefaultMinRise == 10

DefaultMaxPeakGapMs == 100

\* no signal is being conditioned; main() is not running
NoWalk == [stage |-> "idle"]

NoHarness == [pc |-> "idle"]

\* the dispatch on the method string (attempt1.py:613-618)
Detect(m, rs, cfg) ==
    IF m = "com" THEN analyze_window_com(rs, cfg)
    ELSE IF m = "hybrid" THEN analyze_window_hybrid(rs, cfg)
    ELSE analyze_window(rs, cfg)

Init ==
    /\ readings \in Windows
    /\ signals = <<EmptyDict, EmptyDict>>
    /\ config = Config(DefaultSmoothingWindow, DefaultMinRise, DefaultMaxPeakGapMs)
    /\ method = "none"
    /\ result = NoEvent(0, 0)
    /\ walk = NoWalk
    /\ harness = NoHarness

AnalyzeWindow ==
    /\ method = "none"
    /\ \E cfg \in Configs :
          /\ config' = cfg
          /\ result' = Detect("rise", readings, cfg)
    /\ signals' = aggregate_by_side(readings)
    /\ method' = "rise"
    /\ UNCHANGED <<readings, walk, harness>>

AnalyzeWindowCom ==
    /\ method = "none"
    /\ \E cfg \in Configs :
          /\ config' = cfg
          /\ result' = Detect("com", readings, cfg)
    /\ signals' = aggregate_by_side(readings)
    /\ method' = "com"
    /\ UNCHANGED <<readings, walk, harness>>

AnalyzeWindowHybrid ==
    /\ method = "none"
    /\ \E cfg \in Configs :
          /\ config' = cfg
          /\ result' = Detect("hybrid", readings, cfg)
    /\ signals' = aggregate_by_side(readings)
    /\ method' = "hybrid"
    /\ UNCHANGED <<readings, walk, harness>>

Next == AnalyzeWindow \/ AnalyzeWindowCom \/ AnalyzeWindowHybrid

Spec == Init /\ [][Next]_vars

(***************************************************************************)
(* The aggregator on its own.  Rows are loaded one by one in any order, as *)
(* load_csv appends them (attempt1.py:57-64), and the list is then         *)
(* aggregated into the two side signals.                                   *)
(***************************************************************************)
\* the rows drawn: two instants, both sides, idle and active values
RowTimestamps == {0, 1}

RowSides == {1, 2}

RowProximities == {0, 3, 5}

InitAgg ==
    /\ readings = <<>>
    /\ signals = <<EmptyDict, EmptyDict>>
    /\ config = Config(DefaultSmoothingWindow, DefaultMinRise, DefaultMaxPeakGapMs)
    /\ method = "none"
    /\ result = NoEvent(0, 0)
    /\ walk = NoWalk
    /\ harness = NoHarness

LoadRow ==
    /\ method = "none"
    /\ Len(readings) < MaxRows
    /\ \E ts \in RowTimestamps, side \in RowSides, prox \in RowProximities :
          readings' = Append(readings, SensorReading(ts, 1, side, prox))
    /\ UNCHANGED <<signals, config, method, result, walk, harness>>

AggregateBySide ==
    /\ method = "none"
    /\ signals' = aggregate_by_side(readings)
    /\ method' = "aggregated"
    /\ UNCHANGED <<readings, config, result, walk, harness>>

NextAgg == LoadRow \/ AggregateBySide

SpecAgg == InitAgg /\ [][NextAgg]_vars

(***************************************************************************)
(* Rows whose side field is neither 1 nor 2: load_csv takes int(row[side]) *)
(* as it is (attempt1.py:59-64).                                           *)
(***************************************************************************)
OtherSides == {0, 3}

LoadOtherRow ==
    /\ method = "none"
    /\ Len(readings) < MaxRows
    /\ \E ts \in RowTimestamps, side \in OtherSides, prox \in RowProximities :
          readings' = Append(readings, SensorReading(ts, 1, side, prox))
    /\ UNCHANGED <<signals, config, method, result, walk, harness>>

NextAggAny == LoadRow \/ LoadOtherRow \/ AggregateBySide

SpecAggAny == InitAgg /\ [][NextAggAny]_vars

(***************************************************************************)
(* Transit windows under the Config() defaults.  One module; side A rises  *)
(* linearly from 0 to its top, then side B does, the way main() loads a    *)
(* capture (attempt1.py:612) and hands it to a detector                    *)
(* (attempt1.py:613-618).                                                  *)
(***************************************************************************)
\* tops, duration of a rise and start of side B's rise, in ms
Transit == [top_a |-> 80, top_b |-> 85, rise_ms |-> 20, start_b |-> 40]

\* sampling periods, each dividing the duration of a rise
TransitStrides == {1, 2, 4, 5, 10, 20}

\* idle samples (proximity 0) before a rise
TransitLeads == 0..2

\* samples after the top, in percent of the top
TransitTails == {<<>>, <<100>>, <<100, 100, 100>>, <<50>>, <<0, 0>>}

\* further delay of side B, in ms
TransitShifts == {0, 10, 30, 50, 70}

Ramp(top, stride, lead, tail) ==
    LET n == Transit.rise_ms \div stride
    IN [i \in 1..(lead + n + 1 + Len(tail)) |->
           IF i <= lead THEN 0
           ELSE IF i <= lead + n + 1 THEN (top * (i - lead - 1)) \div n
           ELSE (top * tail[i - lead - n - 1]) \div 100]

TransitTrack(side, top, start, stride, lead, tail) ==
    Track(Ramp(top, stride, lead, tail), side, start - stride * lead, stride, 1)

TransitWindow(stride, lead, tail, shift) ==
    TransitTrack(2, Transit.top_a, 0, stride, lead, tail)
        \o TransitTrack(1, Transit.top_b, Transit.start_b + shift, stride, lead, tail)

TransitWindows ==
    {TransitWindow(stride, lead, tail, shift) :
        stride \in TransitStrides, lead \in TransitLeads,
        tail \in TransitTails, shift \in TransitShifts}

DefaultConfig ==
    Config(DefaultSmoothingWindow, DefaultMinRise, DefaultMaxPeakGapMs)

InitTransit ==
    /\ readings \in TransitWindows
    /\ signals = <<EmptyDict, EmptyDict>>
    /\ config = DefaultConfig
    /\ method = "none"
    /\ result = NoEvent(0, 0)
    /\ walk = NoWalk
    /\ harness = NoHarness

AnalyzeDefault ==
    /\ method = "none"
    /\ result' = Detect("rise", readings, config)
    /\ signals' = aggregate_by_side(readings)
    /\ method' = "rise"
    /\ UNCHANGED <<readings, config, walk, harness>>

AnalyzeDefaultCom ==
    /\ method = "none"
    /\ result' = Detect("com", readings, config)
    /\ signals' = aggregate_by_side(readings)
    /\ method' = "com"
    /\ UNCHANGED <<readings, config, walk, harness>>

AnalyzeDefaultHybrid ==
    /\ method = "none"
    /\ result' = Detect("hybrid", readings, config)
    /\ signals' = aggregate_by_side(readings)
    /\ method' = "hybrid"
    /\ UNCHANGED <<readings, config, walk, harness>>

NextTransit == AnalyzeDefault \/ AnalyzeDefaultCom \/ AnalyzeDefaultHybrid

SpecTransit == InitTransit /\ [][NextTransit]_vars

(***************************************************************************)
(* Conditioning of one side signal (attempt1.py:475-498): smooth_signal,   *)
(* compute_derivative, then find_rise_start_times iteration by iteration.  *)
(* walk.i is the 1-based position of curr_ts in timestamps; the loop       *)
(* "for i in range(1, len(timestamps))" starts it at 2.                    *)
(***************************************************************************)
CondValues == {0, 8, 16}

CondStrides == {1, 2}

\* the signal holding shape[i] at the i-th timestamp
SignalOf(shape, offset, stride) ==
    [ts \in {offset + stride * (i - 1) : i \in 1..Len(shape)} |->
        shape[((ts - offset) \div stride) + 1]]

CondSignals ==
    {SignalOf(shape, 1, stride) :
        shape \in SeqsUpTo(CondValues, MaxLen), stride \in CondStrides}

InitCond ==
    /\ readings = <<>>
    /\ signals = <<EmptyDict, EmptyDict>>
    /\ config = DefaultConfig
    /\ method = "none"
    /\ result = NoEvent(0, 0)
    /\ harness = NoHarness
    /\ \E raw \in CondSignals, w \in 1..MaxWindow, mr \in MinRises :
          walk = [stage |-> "raw", raw |-> raw, window |-> w, min_rise |-> mr,
                  smooth |-> EmptyDict, derivative |-> EmptyDict,
                  timestamps |-> <<>>, i |-> 0, st |-> RiseWalkInit,
                  rises |-> <<>>]

SmoothSignal ==
    /\ walk.stage = "raw"
    /\ walk' = [walk EXCEPT !.stage = "smoothed",
                            !.smooth = smooth_signal(walk.raw, walk.window)]
    /\ UNCHANGED <<readings, signals, config, method, result, harness>>

ComputeDerivative ==
    /\ walk.stage = "smoothed"
    /\ walk' = [walk EXCEPT !.stage = "derived",
                            !.derivative = compute_derivative(walk.smooth)]
    /\ UNCHANGED <<readings, signals, config, method, result, harness>>

\* the call: timestamps sorted, locals initialised
FindRiseStartTimes ==
    /\ walk.stage = "derived"
    /\ walk' = [walk EXCEPT !.stage = "walking",
                            !.timestamps = SortedKeys(DOMAIN walk.derivative),
                            !.i = 2,
                            !.st = RiseWalkInit]
    /\ UNCHANGED <<readings, signals, config, method, result, harness>>

\* one iteration of the loop
WalkStep ==
    /\ walk.stage = "walking"
    /\ walk.i <= Len(walk.timestamps)
    /\ walk' = [walk EXCEPT !.i = @ + 1,
                            !.st = RiseStep(walk.smooth, walk.derivative,
                                            walk.timestamps, walk.min_rise,
                                            walk.i, walk.st)]
    /\ UNCHANGED <<readings, signals, config, method, result, harness>>

\* return rises
WalkReturn ==
    /\ walk.stage = "walking"
    /\ walk.i > Len(walk.timestamps)
    /\ walk' = [walk EXCEPT !.stage = "done", !.rises = walk.st.rises]
    /\ UNCHANGED <<readings, signals, config, method, result, harness>>

NextCond ==
    SmoothSignal \/ ComputeDerivative \/ FindRiseStartTimes \/ WalkStep
        \/ WalkReturn

SpecCond == InitCond /\ [][NextCond]_vars

(***************************************************************************)
(* main (attempt1.py:574-675): the validation harness over a directory of  *)
(* labeled captures.  harness holds main's locals; a capture is a file     *)
(* that load_csv reads into a reading list, or one with a row that lacks a *)
(* required field, on which load_csv raises KeyError (attempt1.py:59-64).  *)
(***************************************************************************)
\* configs (attempt1.py:587-592)
HarnessConfigs ==
    <<[name |-> "Rise-Start Default", config |-> Config(3, 10, 100),
       method |-> "rise"],
      [name |-> "Hybrid Default", config |-> Config(3, 10, 100),
       method |-> "hybrid"],
      [name |-> "Hybrid Sensitive", config |-> Config(3, 8, 120),
       method |-> "hybrid"],
      [name |-> "Hybrid Smoothed", config |-> Config(5, 10, 100),
       method |-> "hybrid"]>>

\* get_expected_direction on the prefix of the file name
get_expected_direction(prefix) ==
    IF prefix = "a_to_b" THEN A_TO_B
    ELSE IF prefix = "b_to_a" THEN B_TO_A
    ELSE UNKNOWN

FilePrefixes == {"a_to_b", "b_to_a", "baseline", "other"}

\* a transit from A to B, one from B to A, and an idle window
CaptureAToB == TransitWindow(5, 0, <<50>>, 0)

CaptureBToA ==
    TransitTrack(1, Transit.top_b, 0, 5, 0, <<50>>)
        \o TransitTrack(2, Transit.top_a, Transit.start_b, 5, 0, <<50>>)

CaptureIdle == Track(<<0, 0, 0>>, 2, 0, 5, 1) \o Track(<<0, 0, 0>>, 1, 0, 5, 1)

CsvFiles ==
    {[ok |-> TRUE, rows |-> rs] : rs \in {CaptureAToB, CaptureBToA, CaptureIdle}}
        \cup {[ok |-> FALSE, rows |-> <<>>]}

Units == {[prefix |-> p, file |-> f] : p \in FilePrefixes, f \in CsvFiles}

\* correct / total * 100, as a fraction
Accuracy(correct, total) ==
    IF total > 0 THEN Reduce(<<correct * 100, total>>) ELSE Zero

InitHarness ==
    /\ readings = <<>>
    /\ signals = <<EmptyDict, EmptyDict>>
    /\ config = DefaultConfig
    /\ method = "none"
    /\ result = NoEvent(0, 0)
    /\ walk = NoWalk
    /\ \E exists \in BOOLEAN, csv_files \in SeqsUpTo(Units, MaxUnits) :
          /\ ~exists => csv_files = <<>>
          /\ harness = [pc |-> "start", data_dir_exists |-> exists,
                        csv_files |-> csv_files, c |-> 0, u |-> 0,
                        total |-> 0, correct |-> 0, accuracies |-> <<>>,
                        best_accuracy |-> Zero, best_config_name |-> ""]

\* lines 581-601: the data directory check and the initial best
CheckDataDir ==
    /\ harness.pc = "start"
    /\ harness' = IF ~harness.data_dir_exists
                  THEN [harness EXCEPT !.pc = "no_data"]
                  ELSE [harness EXCEPT !.pc = "units", !.c = 1, !.u = 1,
                                       !.best_accuracy = Zero,
                                       !.best_config_name = ""]
    /\ UNCHANGED <<readings, signals, config, method, result, walk>>

\* lines 612-644: one unit under the current configuration; an exception
\* raised by load_csv is not caught and ends main
ProcessUnit ==
    /\ harness.pc = "units"
    /\ harness.c <= Len(HarnessConfigs)
    /\ harness.u <= Len(harness.csv_files)
    /\ LET cfg == HarnessConfigs[harness.c]
           unit == harness.csv_files[harness.u]
       IN IF ~unit.file.ok
          THEN /\ harness' = [harness EXCEPT !.pc = "aborted"]
               /\ UNCHANGED <<readings, signals, config, method, result>>
          ELSE LET r == Detect(cfg.method, unit.file.rows, cfg.config)
                   is_correct == r.direction = get_expected_direction(unit.prefix)
               IN /\ readings' = unit.file.rows
                  /\ signals' = aggregate_by_side(unit.file.rows)
                  /\ config' = cfg.config
                  /\ method' = cfg.method
                  /\ result' = r
                  /\ harness' = [harness EXCEPT
                                    !.u = @ + 1,
                                    !.total = @ + 1,
                                    !.correct = IF is_correct THEN @ + 1 ELSE @]
    /\ UNCHANGED walk

\* lines 646-666: the summary of a configuration and the update of the best
SummarizeConfig ==
    /\ harness.pc = "units"
    /\ harness.c <= Len(HarnessConfigs)
    /\ harness.u > Len(harness.csv_files)
    /\ LET accuracy == Accuracy(harness.correct, harness.total)
           better == RatLt(harness.best_accuracy, accuracy)
       IN harness' = [harness EXCEPT
                         !.accuracies = Append(@, accuracy),
                         !.best_accuracy = IF better THEN accuracy ELSE @,
                         !.best_config_name =
                             IF better THEN HarnessConfigs[harness.c].name ELSE @,
                         !.c = @ + 1, !.u = 1, !.total = 0, !.correct = 0]
    /\ UNCHANGED <<readings, signals, config, method, result, walk>>

\* line 669: BEST CONFIG
ReportBest ==
    /\ harness.pc = "units"
    /\ harness.c > Len(HarnessConfigs)
    /\ harness' = [harness EXCEPT !.pc = "reported"]
    /\ UNCHANGED <<readings, signals, config, method, result, walk>>

NextHarness == CheckDataDir \/ ProcessUnit \/ SummarizeConfig \/ ReportBest

SpecHarness == InitHarness /\ [][NextHarness]_vars

(***************************************************************************)
(* Windows with a repeated excursion: one side shows a smaller and a       *)
(* larger bump, the other side one bump, sampled every 5 ms.               *)
(***************************************************************************)
\* heights of the smaller bump, of the larger bump, and of the single bump
RepeatHeights == [small |-> {40, 60}, large |-> 80, single |-> 85]

\* start of the single bump, in ms
RepeatOffsets == {0, 30, 40, 70, 150}

Bump(h) == <<0, 0, h \div 2, h, h \div 2, 0, 0>>

\* the side with two bumps is side `twice`; the larger one comes first or last
RepeatWindow(twice, small, large_first, offset) ==
    Track(IF large_first THEN Bump(RepeatHeights.large) \o Bump(small)
          ELSE Bump(small) \o Bump(RepeatHeights.large),
          twice, 0, 5, 1)
        \o Track(Bump(RepeatHeights.single), 3 - twice, offset, 5, 1)

RepeatWindows ==
    {RepeatWindow(twice, small, large_first, offset) :
        twice \in 1..2, small \in RepeatHeights.small,
        large_first \in BOOLEAN, offset \in RepeatOffsets}

InitRepeat ==
    /\ readings \in RepeatWindows
    /\ signals = <<EmptyDict, EmptyDict>>
    /\ config = DefaultConfig
    /\ method = "none"
    /\ result = NoEvent(0, 0)
    /\ walk = NoWalk
    /\ harness = NoHarness

(***************************************************************************)
(* Both families of windows, each analysed under a drawn configuration or  *)
(* under the Config() defaults.                                            *)
(***************************************************************************)
InitDetect == Init \/ InitTransit

NextDetect == Next \/ NextTransit

SpecDetect == InitDetect /\ [][NextDetect]_vars

SpecRepeat == InitRepeat /\ [][NextDetect]_vars

(***************************************************************************)
(* Properties of the detectors.                                            *)
(***************************************************************************)
\* steps 2-4 of the Rise-Start and Hybrid detectors on one side signal
\* (attempt1.py:475-498, 270-291)
RisesOf(side, cfg) ==
    LET smooth == smooth_signal(side, cfg.smoothing_window)
    IN find_rise_start_times(smooth, compute_derivative(smooth), cfg.min_rise)

\* the window with every side tag exchanged, 1 <-> 2
SwapSides(rs) == [i \in 1..Len(rs) |-> [rs[i] EXCEPT !.side = 3 - @]]

Applied == method # "none"

Detected == Applied /\ result.direction # UNKNOWN

NoDirection == result.direction = UNKNOWN /\ result.confidence = Zero

\* the peak timestamps of the two main rises, when both sides have a rise
MainPeaks ==
    LET rises_a == RisesOf(signals[1], config)
        rises_b == RisesOf(signals[2], config)
    IN IF Len(rises_a) = 0 \/ Len(rises_b) = 0 THEN None
       ELSE Some(<<MainRise(rises_a)[2], MainRise(rises_b)[2]>>)

\* C1 as stated: a result of any detector whose direction is not UNKNOWN has
\* peak_gap_ms <= config.max_peak_gap_ms.
C1_GapWithinMaxPeakGap ==
    Detected => \A gap \in result.peak_gap_ms : gap <= config.max_peak_gap_ms

\* C1 amended: a result of the Rise-Start or the Hybrid detector whose
\* direction is not UNKNOWN comes from two main rises whose peak timestamps
\* differ by at most config.max_peak_gap_ms.
C1_PeaksWithinMaxPeakGap ==
    (Detected /\ method \in {"rise", "hybrid"}) =>
        \E pk \in MainPeaks : Abs(pk[1] - pk[2]) <= config.max_peak_gap_ms

\* a direction decided for two peaks exactly max_peak_gap_ms apart, with a
\* reported gap that is not the peak gap
C1_Witness ==
    /\ Detected /\ method = "rise"
    /\ \E pk \in MainPeaks : Abs(pk[1] - pk[2]) = config.max_peak_gap_ms
    /\ Val(result.peak_gap_ms) < config.max_peak_gap_ms

\* whether the deciding times of the two sides are exactly equal
Tie ==
    LET com_a == calculate_center_of_mass(signals[1], config.min_rise)
        com_b == calculate_center_of_mass(signals[2], config.min_rise)
        rise_a == MainRise(RisesOf(signals[1], config))
        rise_b == MainRise(RisesOf(signals[2], config))
    IN IF method = "rise" THEN rise_a[1] = rise_b[1] /\ rise_a[2] = rise_b[2]
       ELSE IF com_a # None /\ com_b # None THEN RatEq(Val(com_a), Val(com_b))
       ELSE rise_a[2] = rise_b[2]

Swapped == Detect(method, SwapSides(readings), config)

SwapKeeps(sw) ==
    /\ sw.confidence = result.confidence
    /\ sw.side_a_max = result.side_b_max
    /\ sw.side_b_max = result.side_a_max
    /\ result.direction = UNKNOWN => sw.direction = UNKNOWN
    /\ result.direction = A_TO_B => sw.direction = B_TO_A

\* C2 as stated: exchanging the side tags 1 <-> 2 of every reading and
\* running the same detector with the same config turns A_TO_B into B_TO_A
\* and B_TO_A into A_TO_B, keeps UNKNOWN and the confidence, and exchanges
\* side_a_max with side_b_max.
C2_SwapFlips ==
    Applied => LET sw == Swapped
               IN /\ SwapKeeps(sw)
                  /\ result.direction = B_TO_A => sw.direction = A_TO_B

\* C2 amended: as stated, except that a B_TO_A result whose deciding times
\* are exactly equal on the two sides (equal rise starts and equal peaks
\* for Rise-Start; equal centers of mass, or equal peaks in the fallback,
\* for Center-of-Mass and Hybrid) stays B_TO_A.
C2_SwapFlipsUnlessTie ==
    Applied => LET sw == Swapped
               IN /\ SwapKeeps(sw)
                  /\ result.direction = B_TO_A =>
                        sw.direction = IF Tie THEN B_TO_A ELSE A_TO_B

\* a B_TO_A result of the Center-of-Mass detector that the exchange turns
\* into A_TO_B with the two maxima exchanged
C2_Witness ==
    /\ method = "com" /\ result.direction = B_TO_A
    /\ result.side_a_max # result.side_b_max
    /\ Swapped.direction = A_TO_B

\* C3: a result of any detector whose direction is not UNKNOWN has
\* peak_time_a, peak_time_b and peak_gap_ms all set (not None).
C3_DetectedHasTimes ==
    Detected => /\ result.peak_time_a # None
                /\ result.peak_time_b # None
                /\ result.peak_gap_ms # None

\* a direction decided by the Hybrid detector in its fallback, where a
\* center of mass is undefined and the peak time is reported
C3_Witness ==
    /\ Detected /\ method = "hybrid"
    /\ calculate_center_of_mass(signals[1], config.min_rise) = None
    /\ result.peak_time_a # None

HasSide(s) == \E i \in 1..Len(readings) : (readings[i].side = 2) = (s = "a")

\* C4: when the window is empty or one side has no reading, every detector
\* returns direction UNKNOWN, confidence 0, side_a_max 0 and side_b_max 0.
C4_MissingSideNoEvent ==
    (Applied /\ (~HasSide("a") \/ ~HasSide("b"))) =>
        NoDirection /\ result.side_a_max = 0 /\ result.side_b_max = 0

\* a detector applied to a window with active readings on side A only
C4_Witness ==
    /\ Applied /\ ~HasSide("b")
    /\ \E i \in 1..Len(readings) : readings[i].proximity > 0
    /\ NoDirection /\ result.side_a_max = 0

IsMaxOf(v, side) ==
    /\ \E ts \in DOMAIN side : side[ts] = v
    /\ \A ts \in DOMAIN side : side[ts] <= v

\* C5 as stated: in every result side_a_max >= 0 and, whenever side A has a
\* reading, side_a_max is the largest aggregated side-A value; likewise
\* side_b_max for side B.
C5_SideMaxOfOwnSide ==
    Applied => /\ result.side_a_max >= 0 /\ result.side_b_max >= 0
               /\ HasSide("a") => IsMaxOf(result.side_a_max, signals[1])
               /\ HasSide("b") => IsMaxOf(result.side_b_max, signals[2])

\* C5 amended: in every result side_a_max >= 0 and side_b_max >= 0; whenever
\* BOTH sides have a reading, side_a_max is the largest aggregated side-A
\* value and side_b_max the largest aggregated side-B value; when either
\* side has no reading both are 0.
C5_SideMaxWhenBothSides ==
    Applied => /\ result.side_a_max >= 0 /\ result.side_b_max >= 0
               /\ IF HasSide("a") /\ HasSide("b")
                  THEN /\ IsMaxOf(result.side_a_max, signals[1])
                       /\ IsMaxOf(result.side_b_max, signals[2])
                  ELSE result.side_a_max = 0 /\ result.side_b_max = 0

\* an UNKNOWN result that reports the maximum of two modules' summed values
C5_Witness ==
    /\ Applied /\ result.direction = UNKNOWN
    /\ result.side_a_max > 0 /\ result.side_b_max > 0
    /\ \E i \in 1..Len(readings) :
          readings[i].side = 1 /\ result.side_b_max = 2 * readings[i].proximity

\* C7: for the Rise-Start and Hybrid detectors, when both sides have a
\* qualifying main rise and the two peak timestamps differ by more than
\* max_peak_gap_ms the result is UNKNOWN with confidence 0, peak_time_a and
\* peak_time_b the two peak timestamps and peak_gap_ms their absolute
\* difference; when they differ by at most max_peak_gap_ms a direction is
\* decided.
C7_GapRejection ==
    (Applied /\ method \in {"rise", "hybrid"}) =>
        \A pk \in MainPeaks :
            IF Abs(pk[1] - pk[2]) > config.max_peak_gap_ms
            THEN /\ NoDirection
                 /\ result.peak_time_a = Some(pk[1])
                 /\ result.peak_time_b = Some(pk[2])
                 /\ result.peak_gap_ms = Some(Abs(pk[1] - pk[2]))
            ELSE result.direction # UNKNOWN

\* a pairing rejected by the Hybrid detector with the peak gap reported
C7_Witness ==
    /\ method = "hybrid" /\ NoDirection
    /\ \E pk \in MainPeaks :
          /\ Abs(pk[1] - pk[2]) > config.max_peak_gap_ms
          /\ result.peak_gap_ms = Some(Abs(pk[1] - pk[2]))

AllBelow(side, v) == \A ts \in DOMAIN side : side[ts] < v

\* C8: when min_rise is greater than every aggregated value of side A, or
\* greater than every aggregated value of side B, every detector returns
\* UNKNOWN with confidence 0.
C8_MinRiseAboveSide ==
    (Applied /\ (AllBelow(signals[1], config.min_rise)
                    \/ AllBelow(signals[2], config.min_rise))) => NoDirection

\* side A stays below min_rise while side B reaches it, both sides being
\* active enough for the Center-of-Mass detector to compute a gap
C8_Witness ==
    /\ method = "com" /\ NoDirection
    /\ DOMAIN signals[1] # {} /\ AllBelow(signals[1], config.min_rise)
    /\ ~AllBelow(signals[2], config.min_rise)
    /\ result.peak_gap_ms # None

\* C9: in every result whose peak_gap_ms is set, peak_gap_ms is the
\* absolute difference of the peak_time_a and peak_time_b of that result.
C9_GapIsTimeDifference ==
    (Applied /\ result.peak_gap_ms # None) =>
        /\ result.peak_time_a # None /\ result.peak_time_b # None
        /\ Val(result.peak_gap_ms)
              = Abs(Val(result.peak_time_a) - Val(result.peak_time_b))

FewTimestamps(side) == Cardinality(DOMAIN side) < 2

\* C10 as stated: when the aggregated signal of either side has fewer than
\* 2 distinct timestamps, every detector returns UNKNOWN with confidence 0.
C10_FewTimestampsNoEvent ==
    (Applied /\ (FewTimestamps(signals[1]) \/ FewTimestamps(signals[2])))
        => NoDirection

\* C10 amended: when the aggregated signal of either side has fewer than 2
\* distinct timestamps, the Rise-Start and the Hybrid detector return
\* UNKNOWN with confidence 0.
C10_FewTimestampsNoRise ==
    (Applied /\ method \in {"rise", "hybrid"}
        /\ (FewTimestamps(signals[1]) \/ FewTimestamps(signals[2])))
        => NoDirection

\* the Rise-Start detector on a window whose side B has exactly one active
\* timestamp while side A has several
C10_Witness ==
    /\ method = "rise" /\ NoDirection
    /\ Cardinality(DOMAIN signals[2]) = 1 /\ result.side_b_max > 0
    /\ Cardinality(DOMAIN signals[1]) > 2 /\ result.side_a_max > 0

(***************************************************************************)
(* Properties of the aggregator.                                           *)
(***************************************************************************)
\* the readings of one side value, as indices into the list
OfSide(rs, side) == {i \in 1..Len(rs) : rs[i].side = side}

\* timestamp -> sum of the proximity of the side's readings at that timestamp
SumSignal(rs, side) ==
    [ts \in {rs[i].timestamp : i \in OfSide(rs, side)} |->
        SumOver([i \in 1..Len(rs) |-> rs[i].proximity],
                {i \in OfSide(rs, side) : rs[i].timestamp = ts})]

\* C6: the side-A signal maps exactly the timestamps of the side-2 readings
\* to the sum of the proximity of all side-2 readings at that timestamp,
\* the side-B signal does the same for the side-1 readings, and every
\* permutation of the reading list gives the same two signals.
C6_AggregateSums ==
    method = "aggregated" =>
        /\ signals = <<SumSignal(readings, 2), SumSignal(readings, 1)>>
        /\ \A f \in Permutations(1..Len(readings)) :
              aggregate_by_side([i \in 1..Len(readings) |-> readings[f[i]]])
                 = signals

\* two side-2 readings of one instant summed, next to a side-1 reading
C6_Witness ==
    /\ method = "aggregated"
    /\ \E i, j \in OfSide(readings, 2) :
          /\ i < j /\ readings[i].timestamp = readings[j].timestamp
          /\ readings[i].proximity > 0 /\ readings[j].proximity > 0
          /\ signals[1][readings[i].timestamp]
                = readings[i].proximity + readings[j].proximity
    /\ DOMAIN signals[2] # {}

(***************************************************************************)
(* Scenario 1 and the confidence of the Rise-Start detector.               *)
(***************************************************************************)
\* the windows of Scenario 1: side B rises over t = 40..60
Scenario1Windows ==
    {TransitWindow(stride, lead, tail, 0) :
        stride \in TransitStrides, lead \in TransitLeads, tail \in TransitTails}

IsScenario1 == readings \in Scenario1Windows

\* the first timestamp at which the signal is at its maximum
TopTime(signal) ==
    LET top == SetMax({signal[t] : t \in DOMAIN signal})
    IN SetMin({t \in DOMAIN signal : signal[t] = top})

NextTime(signal, t) == SetMin({u \in DOMAIN signal : u > t})

\* the sample that follows the top is lower than the top
FallsAfterTop(signal) ==
    LET t == TopTime(signal)
    IN /\ \E u \in DOMAIN signal : u > t
       /\ signal[NextTime(signal, t)] < signal[t]

\* consecutive samples are at most ms apart
SampledWithin(signal, ms) ==
    \A t \in DOMAIN signal :
        (\E u \in DOMAIN signal : u > t) => NextTime(signal, t) - t <= ms

\* direction A_TO_B with confidence above one half
ClearAToB == result.direction = A_TO_B /\ 2 * result.confidence[1] > result.confidence[2]

\* both side signals have a recorded rise under the configuration
BothRisesRecorded ==
    /\ Len(RisesOf(signals[1], config)) > 0
    /\ Len(RisesOf(signals[2], config)) > 0

ShiftSideB(rs, d) ==
    [i \in 1..Len(rs) |->
        IF rs[i].side = 1 THEN [rs[i] EXCEPT !.timestamp = @ + d] ELSE rs[i]]

\* further delays of side B under which two inputs are compared
ShiftSteps == {10, 20, 40}

\* the main rises of the two sides of a reading list, None when a side has
\* no rise
MainRisesOf(rs, cfg) ==
    LET sides == aggregate_by_side(rs)
        rises_a == IF DOMAIN sides[1] = {} THEN <<>> ELSE RisesOf(sides[1], cfg)
        rises_b == IF DOMAIN sides[2] = {} THEN <<>> ELSE RisesOf(sides[2], cfg)
    IN IF Len(rises_a) = 0 \/ Len(rises_b) = 0 THEN None
       ELSE Some(<<MainRise(rises_a), MainRise(rises_b)>>)

\* |rise_start_a - rise_start_b| of the main rises
RiseStartGap(rs, cfg) ==
    LET m == Val(MainRisesOf(rs, cfg)) IN Abs(m[1][1] - m[2][1])

\* the peaks of the main rises are at most max_peak_gap_ms apart
PassesGate(rs, cfg) ==
    LET m == Val(MainRisesOf(rs, cfg))
    IN Abs(m[1][2] - m[2][2]) <= cfg.max_peak_gap_ms

\* C12 as stated: of two inputs that differ only in the delay of side B, the
\* one with the larger rise-start gap never gets the lower Rise-Start
\* confidence.
C12_LargerGapNotLower ==
    method = "rise" =>
        \A d \in ShiftSteps :
            LET later == ShiftSideB(readings, d)
            IN (/\ MainRisesOf(readings, config) # None
                /\ MainRisesOf(later, config) # None
                /\ RiseStartGap(readings, config) <= RiseStartGap(later, config))
               => RatLe(result.confidence, analyze_window(later, config).confidence)

\* C12: of two inputs that differ only in the delay of side B and whose main
\* rises both pass the same-event gate, the one with the larger rise-start
\* gap never gets the lower Rise-Start confidence, and when the smaller gap
\* is 50 ms or more the two confidences are equal.
C12_MonotoneWithinGate ==
    method = "rise" =>
        \A d \in ShiftSteps :
            LET later == ShiftSideB(readings, d)
                other == analyze_window(later, config)
            IN (/\ MainRisesOf(readings, config) # None
                /\ MainRisesOf(later, config) # None
                /\ RiseStartGap(readings, config) <= RiseStartGap(later, config)
                /\ PassesGate(readings, config)
                /\ PassesGate(later, config))
               => /\ RatLe(result.confidence, other.confidence)
                  /\ RiseStartGap(readings, config) >= 50
                        => other.confidence = result.confidence

\* a gap of 50 ms: 10 ms less gives a lower confidence, 20 ms more the same
C12_Witness ==
    /\ method = "rise"
    /\ MainRisesOf(readings, config) # None
    /\ RiseStartGap(readings, config) = 50
    /\ PassesGate(readings, config)
    /\ result.direction = A_TO_B
    /\ LET earlier == analyze_window(ShiftSideB(readings, -10), config)
           later == ShiftSideB(readings, 20)
       IN /\ earlier.direction = A_TO_B
          /\ RatLt(earlier.confidence, result.confidence)
          /\ PassesGate(later, config)
          /\ RiseStartGap(later, config) = 70
          /\ analyze_window(later, config).confidence = result.confidence

\* C13: the confidence returned by each of the three detectors is a number
\* from 0 to 1.
C13_ConfidenceInUnitRange ==
    Applied =>
        /\ result.confidence[2] > 0
        /\ 0 <= result.confidence[1]
        /\ result.confidence[1] <= result.confidence[2]

\* both terms saturated: the Hybrid detector reports confidence 1
C13_Witness ==
    /\ method = "hybrid"
    /\ result.direction = A_TO_B
    /\ result.confidence = <<1, 1>>
    /\ Val(result.peak_gap_ms) >= ComGapFull
    /\ result.side_a_max + result.side_b_max >= SignalFull

(***************************************************************************)
(* Properties of the conditioning of one side signal.                      *)
(***************************************************************************)
Smoothed == walk.stage \in {"smoothed", "derived", "walking", "done"}

Derived == walk.stage \in {"derived", "walking", "done"}

\* C14: the smoothed signal has exactly the timestamps of the input signal.
C14_SmoothKeepsTimestamps == Smoothed => DOMAIN walk.smooth = DOMAIN walk.raw

\* a window wider than one sample over a signal whose mean differs from the
\* sample at the second timestamp, the first sample kept
C14_Witness ==
    /\ walk.stage = "smoothed"
    /\ walk.window >= 2
    /\ Cardinality(DOMAIN walk.raw) >= 3
    /\ DOMAIN walk.smooth = DOMAIN walk.raw
    /\ \E t \in DOMAIN walk.raw : walk.smooth[t] # walk.raw[t] * Scale
    /\ LET first == SetMin(DOMAIN walk.raw)
       IN walk.raw[first] > 0 /\ walk.smooth[first] = walk.raw[first] * Scale

\* C15 as stated: for every input signal the derivative has one entry fewer
\* than the input, at the input's timestamps without the smallest one.
C15_OneEntryFewer ==
    Derived =>
        /\ Cardinality(DOMAIN walk.derivative)
              = Cardinality(DOMAIN walk.smooth) - 1
        /\ DOMAIN walk.derivative
              = (DOMAIN walk.smooth) \ {SetMin(DOMAIN walk.smooth)}

\* C15: for every non-empty input signal the derivative's timestamps are the
\* input's timestamps without the smallest one, one entry fewer than the
\* input; the derivative of the empty signal is empty.
C15_DerivativeDomain ==
    Derived =>
        IF DOMAIN walk.smooth = {} THEN DOMAIN walk.derivative = {}
        ELSE /\ Cardinality(DOMAIN walk.derivative)
                   = Cardinality(DOMAIN walk.smooth) - 1
             /\ DOMAIN walk.derivative
                   = (DOMAIN walk.smooth) \ {SetMin(DOMAIN walk.smooth)}

\* the derivative of a signal of three or more samples that changes value
C15_Witness ==
    /\ walk.stage = "derived"
    /\ Cardinality(DOMAIN walk.smooth) >= 3
    /\ SetMin(DOMAIN walk.smooth) \notin DOMAIN walk.derivative
    /\ SetMax(DOMAIN walk.smooth) \in DOMAIN walk.derivative
    /\ \E t \in DOMAIN walk.derivative : walk.derivative[t] # 0

\* the derivative sample at position k of the walk exceeds the threshold
Exceeds(k) ==
    walk.derivative[walk.timestamps[k]] > DerivativeThreshold * Scale

\* the iterations run so far have examined the samples up to this position
Examined == IF walk.stage = "walking" THEN walk.i - 1 ELSE 0

\* C19 as stated: once the walk has passed two consecutive derivative
\* samples that both exceed 2.0, the first sample of the sequence included,
\* a rise is in progress; a single exceeding sample between non-exceeding
\* ones leaves no rise in progress.
C19_TwoExceedingStartRise ==
    \A k \in 2..Examined :
        /\ (Exceeds(k - 1) /\ Exceeds(k) /\ k = Examined)
              => walk.st.rise_start_ts # None
        /\ (/\ k = Examined
            /\ ~Exceeds(k)
            /\ \A j \in 1..(k - 1) : Exceeds(j) => (j > 1 /\ ~Exceeds(j - 1))
                                                    /\ ~Exceeds(j + 1))
              => walk.st.rise_start_ts = None /\ walk.st.rises = <<>>

\* the same from the second sample on: the first sample is not counted
C19_TwoExceedingAfterFirst ==
    \A k \in 3..Examined :
        (Exceeds(k - 1) /\ Exceeds(k) /\ k = Examined)
            => walk.st.rise_start_ts # None

(***************************************************************************)
(* Properties of the validation harness.                                   *)
(***************************************************************************)
\* C16 as stated: a unit whose loading fails does not end the run; the
\* harness goes on with the remaining units and configurations.
C16_UnitFailureDoesNotAbort == harness.pc # "aborted"

\* C17 as stated: the configuration reported as best is a declared one, and
\* no declared configuration has a strictly higher accuracy than it.
C17_BestIsDeclaredAndMaximal ==
    harness.pc = "reported" =>
        \E b \in 1..Len(HarnessConfigs) :
            /\ harness.best_config_name = HarnessConfigs[b].name
            /\ harness.best_accuracy = harness.accuracies[b]
            /\ \A i \in 1..Len(HarnessConfigs) :
                  ~RatLt(harness.accuracies[b], harness.accuracies[i])

\* whenever some configuration gets a unit right the reported best is a
\* declared configuration of the highest accuracy
C17_BestWhenSomeCorrect ==
    (/\ harness.pc = "reported"
     /\ \E i \in 1..Len(HarnessConfigs) : harness.accuracies[i] # Zero) =>
        \E b \in 1..Len(HarnessConfigs) :
            /\ harness.best_config_name = HarnessConfigs[b].name
            /\ harness.best_accuracy = harness.accuracies[b]
            /\ \A i \in 1..Len(HarnessConfigs) :
                  ~RatLt(harness.accuracies[b], harness.accuracies[i])

(***************************************************************************)
(* The Center-of-Mass detector's decision and the Hybrid detector's        *)
(* confirmation.                                                           *)
(***************************************************************************)
\* twice the sum over the timestamps of max(0, value - min_rise / 2)
TotalWeight2(signal, min_rise) ==
    SumOver([ts \in DOMAIN signal |->
                IF 2 * signal[ts] > min_rise THEN 2 * signal[ts] - min_rise ELSE 0],
            DOMAIN signal)

LowWeight(signal, min_rise) == TotalWeight2(signal, min_rise) < 2 * MinTotalWeight

BelowMinRise(signal, min_rise) ==
    \A ts \in DOMAIN signal : signal[ts] < min_rise

ComApplied == method = "com" /\ HasSide("a") /\ HasSide("b")

\* C18 as stated: with both sides non-empty the Center-of-Mass result is
\* UNKNOWN exactly when a side's total weight is below 10.
C18_UnknownIffLowWeight ==
    ComApplied =>
        (result.direction = UNKNOWN
            <=> \E s \in 1..2 : LowWeight(signals[s], config.min_rise))

\* C18: with both sides non-empty the Center-of-Mass result is UNKNOWN
\* exactly when a side's total weight is below 10 or a side's maximum is
\* below min_rise; otherwise the direction is A_TO_B when side A's center
\* of mass is earlier than side B's and B_TO_A when side B's is earlier.
C18_UnknownIffLowWeightOrBelowMinRise ==
    ComApplied =>
        LET unknown == \E s \in 1..2 : \/ LowWeight(signals[s], config.min_rise)
                                       \/ BelowMinRise(signals[s], config.min_rise)
        IN /\ result.direction = UNKNOWN <=> unknown
           /\ ~unknown =>
                 LET com_a == Val(calculate_center_of_mass(signals[1], config.min_rise))
                     com_b == Val(calculate_center_of_mass(signals[2], config.min_rise))
                 IN /\ RatLt(com_a, com_b) => result.direction = A_TO_B
                    /\ RatLt(com_b, com_a) => result.direction = B_TO_A

\* a side with enough weight whose maximum is below min_rise
C18_Witness ==
    /\ ComApplied
    /\ result.direction = UNKNOWN
    /\ \A s \in 1..2 : ~LowWeight(signals[s], config.min_rise)
    /\ BelowMinRise(signals[1], config.min_rise)
    /\ result.peak_gap_ms # None

\* C20: the Hybrid detector returns UNKNOWN exactly when the Rise-Start
\* detector does on the same readings and configuration, and when the
\* same-event gate rejects, both report the same peak_time_a, peak_time_b
\* and peak_gap_ms.
C20_HybridConfirmsAsRiseStart ==
    method = "hybrid" =>
        LET rise == analyze_window(readings, config)
        IN /\ result.direction = UNKNOWN <=> rise.direction = UNKNOWN
           /\ (rise.direction = UNKNOWN /\ rise.peak_gap_ms # None) =>
                 /\ result.peak_time_a = rise.peak_time_a
                 /\ result.peak_time_b = rise.peak_time_b
                 /\ result.peak_gap_ms = rise.peak_gap_ms

\* the gate rejecting under the Hybrid detector as under Rise-Start
C20_Witness ==
    /\ method = "hybrid"
    /\ result.direction = UNKNOWN
    /\ result.peak_gap_ms # None
    /\ Val(result.peak_gap_ms) > config.max_peak_gap_ms
    /\ analyze_window(readings, config).peak_gap_ms = result.peak_gap_ms

(***************************************************************************)
(* The direction rules.                                                    *)
(***************************************************************************)
\* the centers of mass the detector computes from the two side signals
ComOf(s) == calculate_center_of_mass(signals[s], config.min_rise)

\* a direction was decided from the earlier of two times, ties left open
DecidedByEarlier(a_earlier, b_earlier) ==
    /\ a_earlier => result.direction = A_TO_B
    /\ b_earlier => result.direction = B_TO_A

\* C21: a confirmed Hybrid result takes its direction from the centers of
\* mass when both are defined (A earlier gives A_TO_B, B earlier B_TO_A) and
\* from the peak timestamps of the two main rises when one is undefined.
C21_HybridDirection ==
    (method = "hybrid" /\ result.direction # UNKNOWN) =>
        IF ComOf(1) # None /\ ComOf(2) # None
        THEN DecidedByEarlier(RatLt(Val(ComOf(1)), Val(ComOf(2))),
                              RatLt(Val(ComOf(2)), Val(ComOf(1))))
        ELSE /\ MainPeaks # None
             /\ DecidedByEarlier(Val(MainPeaks)[1] < Val(MainPeaks)[2],
                                 Val(MainPeaks)[2] < Val(MainPeaks)[1])

\* the fallback: a center of mass undefined, side A's peak the earlier one
C21_Witness ==
    /\ method = "hybrid"
    /\ result.direction = A_TO_B
    /\ ComOf(1) = None \/ ComOf(2) = None
    /\ Val(MainPeaks)[1] < Val(MainPeaks)[2]

\* C22: a Rise-Start result that passed the same-event gate is A_TO_B when
\* side A's main rise starts earlier, B_TO_A when side B's starts earlier,
\* and with equal rise starts A_TO_B when A's peak is earlier and B_TO_A
\* when B's peak is earlier.
C22_RiseStartDirection ==
    (method = "rise" /\ result.direction # UNKNOWN) =>
        /\ MainRisesOf(readings, config) # None
        /\ PassesGate(readings, config)
        /\ LET m == Val(MainRisesOf(readings, config))
           IN IF m[1][1] # m[2][1]
              THEN DecidedByEarlier(m[1][1] < m[2][1], m[2][1] < m[1][1])
              ELSE DecidedByEarlier(m[1][2] < m[2][2], m[2][2] < m[1][2])

\* equal rise starts, side A's peak the earlier one
C22_Witness ==
    /\ method = "rise"
    /\ result.direction = A_TO_B
    /\ LET m == Val(MainRisesOf(readings, config))
       IN m[1][1] = m[2][1] /\ m[1][2] < m[2][2]

(***************************************************************************)
(* Properties of the rise walk.                                            *)
(***************************************************************************)
\* a rise <<start, peak, rise_amount>> of the walked signal is well formed
WellFormedRise(r) ==
    /\ r[1] < r[2]
    /\ r[1] \in DOMAIN walk.smooth /\ r[2] \in DOMAIN walk.smooth
    /\ r[3] = walk.smooth[r[2]] - walk.smooth[r[1]]
    /\ r[3] >= walk.min_rise * Scale

\* one iteration of the walk appends at most one rise, a well formed one,
\* and appends one whenever a rise in progress meets a derivative sample
\* <= 0 with an amount of min_rise or more
RiseStepRetains ==
    (walk.stage = "walking" /\ walk'.stage = "walking") =>
        LET old == walk.st.rises
            new == walk'.st.rises
            curr_d == walk.derivative[walk.timestamps[walk.i]]
            prev_ts == walk.timestamps[walk.i - 1]
            start == walk.st.rise_start_ts
        IN /\ \/ new = old
              \/ /\ Len(new) = Len(old) + 1
                 /\ SubSeq(new, 1, Len(old)) = old
                 /\ WellFormedRise(new[Len(new)])
           /\ (/\ start # None
               /\ curr_d <= 0
               /\ walk.smooth[prev_ts] - walk.smooth[Val(start)]
                     >= walk.min_rise * Scale)
                 => Len(new) = Len(old) + 1

\* C23: every rise find_rise_start_times records has its start before its
\* peak, an amount equal to the smoothed value at the peak minus the one at
\* the start, and an amount of at least min_rise; a rise whose amount is
\* min_rise or more is recorded when the derivative falls to 0 or below.
C23_RiseEvents == [][RiseStepRetains]_vars

\* a returned rise whose amount is exactly min_rise
C23_Witness ==
    /\ walk.stage = "done"
    /\ \E k \in 1..Len(walk.rises) :
          /\ walk.rises[k][3] = walk.min_rise * Scale
          /\ WellFormedRise(walk.rises[k])

(***************************************************************************)
(* The main rise of a side.                                                *)
(***************************************************************************)
\* the rises of a side whose amount no other rise of the side exceeds
LargestRises(rises) ==
    {rises[k] : k \in {n \in 1..Len(rises) :
                          \A o \in 1..Len(rises) : rises[n][3] >= rises[o][3]}}

\* the result is the one the detector derives from rise a of side A and
\* rise b of side B: the gate on their peaks, then for Rise-Start the
\* starts, direction and confidence, for Hybrid the peak fallback
ResultUses(a, b) ==
    LET peak_gap == Abs(a[2] - b[2])
        rise_gap == Abs(a[1] - b[1])
    IN IF peak_gap > config.max_peak_gap_ms
       THEN /\ result.direction = UNKNOWN
            /\ result.peak_time_a = Some(a[2])
            /\ result.peak_time_b = Some(b[2])
            /\ result.peak_gap_ms = Some(peak_gap)
       ELSE /\ result.direction # UNKNOWN
            /\ method = "rise" =>
                  /\ result.peak_time_a = Some(a[1])
                  /\ result.peak_time_b = Some(b[1])
                  /\ result.peak_gap_ms = Some(rise_gap)
                  /\ a[1] < b[1] => result.direction = A_TO_B
                  /\ b[1] < a[1] => result.direction = B_TO_A
                  /\ result.confidence
                        = Confidence(<<rise_gap, 1>>, RiseGapFull, a[3] + b[3], Scale)
            /\ (method = "hybrid" /\ (ComOf(1) = None \/ ComOf(2) = None)) =>
                  /\ result.peak_gap_ms = Some(peak_gap)
                  /\ a[2] < b[2] => result.direction = A_TO_B
                  /\ b[2] < a[2] => result.direction = B_TO_A

\* C24: when both sides have rises, the Rise-Start and Hybrid results are
\* derived, for each side, from a rise of that side whose amount is at
\* least the amount of every other rise of that side.
C24_MainRiseIsLargest ==
    (method \in {"rise", "hybrid"} /\ HasSide("a") /\ HasSide("b")) =>
        LET rises_a == RisesOf(signals[1], config)
            rises_b == RisesOf(signals[2], config)
        IN (Len(rises_a) > 0 /\ Len(rises_b) > 0) =>
              \E a \in LargestRises(rises_a), b \in LargestRises(rises_b) :
                  ResultUses(a, b)

\* side A's smaller rise peaks closer to side B's peak than its larger one,
\* and the result differs from the one the smaller rise would give
C24_Witness ==
    /\ method = "rise"
    /\ result.direction # UNKNOWN
    /\ LET rises_a == RisesOf(signals[1], config)
           rises_b == RisesOf(signals[2], config)
       IN /\ Len(rises_a) = 2 /\ Len(rises_b) = 1
          /\ \E a \in LargestRises(rises_a), k \in 1..2 :
                /\ rises_a[k][3] < a[3]
                /\ Abs(rises_a[k][2] - rises_b[1][2]) < Abs(a[2] - rises_b[1][2])
                /\ ResultUses(a, rises_b[1])
                /\ ~ResultUses(rises_a[k], rises_b[1])

(***************************************************************************)
(* The value of the moving average.                                        *)
(***************************************************************************)
\* the 1-based position of timestamp ts among the input's timestamps
RankOf(ts) == Cardinality({t \in DOMAIN walk.raw : t <= ts})

\* the first position of the window that ends at position i
WindowStart(i) == MaxOf(1, i - walk.window + 1)

\* the sum of the input values at positions lo..hi
RawSum(lo, hi) ==
    SumRange(walk.raw, SortedKeys(DOMAIN walk.raw), lo, hi)

\* C25: the smoothed value at position i is the arithmetic mean of the input
\* values at positions max(first, i - window + 1) through i; no later sample
\* enters it and the first sample is returned unchanged.
C25_SmoothIsTrailingMean ==
    Smoothed =>
        \A ts \in DOMAIN walk.raw :
            LET i == RankOf(ts)
                n == i - WindowStart(i) + 1
            IN /\ walk.smooth[ts] * n = RawSum(WindowStart(i), i) * Scale
               /\ i = 1 => walk.smooth[ts] = walk.raw[ts] * Scale

\* a full window of two unequal samples followed by a sample that differs
\* from their mean, and a non-zero first sample
C25_Witness ==
    /\ walk.stage = "smoothed"
    /\ walk.window = 2
    /\ \E ts \in DOMAIN walk.raw :
          LET i == RankOf(ts)
              timestamps == SortedKeys(DOMAIN walk.raw)
          IN /\ i >= 2 /\ i < Len(timestamps)
             /\ walk.raw[timestamps[i - 1]] # walk.raw[ts]
             /\ walk.raw[timestamps[i + 1]] * 2 # RawSum(i - 1, i)
             /\ walk.smooth[ts] * 2 = RawSum(i - 1, i) * Scale
             /\ walk.raw[timestamps[1]] > 0
             /\ walk.smooth[timestamps[1]] = walk.raw[timestamps[1]] * Scale

(***************************************************************************)
(* Direction and confidence.                                               *)
(***************************************************************************)
\* C26: in the result of each detector the direction is UNKNOWN exactly when
\* the confidence is 0: a result with a direction has a confidence above 0.
C26_UnknownIffZeroConfidence ==
    Applied =>
        /\ result.direction = UNKNOWN <=> result.confidence[1] = 0
        /\ result.confidence[1] >= 0 /\ result.confidence[2] > 0

\* a Rise-Start result with a direction whose rise starts coincide: the gap
\* term of the confidence is 0 and the signal term alone makes it positive
C26_Witness ==
    /\ method = "rise"
    /\ result.direction # UNKNOWN
    /\ result.peak_gap_ms = Some(0)
    /\ result.confidence[1] > 0

(***************************************************************************)
(* A rise that has not ended when the window ends.                         *)
(***************************************************************************)
\* the derivative of the smoothed signal of side s (1 for A, 2 for B), as
\* the sequence of its values in timestamp order
DerivativeOf(s) ==
    LET derivative ==
            compute_derivative(smooth_signal(signals[s], config.smoothing_window))
        timestamps == SortedKeys(DOMAIN derivative)
    IN [k \in 1..Len(timestamps) |-> derivative[timestamps[k]]]

\* what the smoothed signal gains over the derivative samples j..Len(d)
ClimbFrom(d, j) == SumOver(d, j..Len(d))

\* a side with derivative d has one excursion and is still climbing at its
\* last sample: the walk meets its first two exceeding derivative samples at
\* j and j + 1, and no derivative sample from j on is 0 or below
StillClimbing(d, j) ==
    /\ j >= 2 /\ j + 1 <= Len(d)
    /\ \A k \in 2..(j - 1) : d[k] <= DerivativeThreshold * Scale
    /\ \A k \in j..(j + 1) : d[k] > DerivativeThreshold * Scale
    /\ \A k \in j..Len(d) : d[k] > 0

\* C27: when a side's only excursion has started to rise and no derivative
\* sample at 0 or below follows it before the end of the window, no rise is
\* recorded for that side: Rise-Start and Hybrid return UNKNOWN with
\* confidence 0 and no peak times.
C27_UnfinishedRiseIsNoRise ==
    (method \in {"rise", "hybrid"} /\ HasSide("a") /\ HasSide("b")) =>
        \A s \in 1..2 :
            LET d == DerivativeOf(s)
            IN (\E j \in 2..Len(d) : StillClimbing(d, j)) =>
                  /\ result.direction = UNKNOWN
                  /\ result.confidence = Zero
                  /\ result.peak_time_a = None
                  /\ result.peak_time_b = None
                  /\ result.peak_gap_ms = None

\* side A still climbs at its last sample, by min_rise or more, and side B
\* has a recorded rise
C27_Witness ==
    /\ method = "rise"
    /\ HasSide("a") /\ HasSide("b")
    /\ LET d == DerivativeOf(1)
       IN \E j \in 2..Len(d) :
             /\ StillClimbing(d, j)
             /\ ClimbFrom(d, j) >= config.min_rise * Scale
    /\ Len(RisesOf(signals[2], config)) > 0
    /\ result.direction = UNKNOWN
    /\ result.peak_gap_ms = None

(***************************************************************************)
(* Exactly equal deciding times.                                           *)
(***************************************************************************)
\* both centers of mass are defined and equal
EqualComs(com_a, com_b) ==
    /\ HasSide("a") /\ HasSide("b")
    /\ com_a # None /\ com_b # None
    /\ RatEq(Val(com_a), Val(com_b))

\* both sides have a main rise and the two peak timestamps are equal
EqualPeaks(main) == \E m \in main : m[1][2] = m[2][2]

\* both sides have a main rise and the two rise-start timestamps are equal
EqualStarts(main) == \E m \in main : m[1][1] = m[2][1]

\* the event is confirmed: both sides have a main rise and the peaks pass
\* the same-event gate
Confirmed(main) ==
    \E m \in main : Abs(m[1][2] - m[2][2]) <= config.max_peak_gap_ms

\* C28 as stated: with exactly equal deciding times the result is B_TO_A:
\* in Rise-Start with equal rise starts and equal peaks, in Center-of-Mass
\* with equal centers of mass, in Hybrid with equal centers of mass once the
\* event is confirmed, in the Hybrid fallback with equal peaks.
C28_TieIsBToA ==
    LET main == MainRisesOf(readings, config)
        com_a == ComOf(1)
        com_b == ComOf(2)
    IN /\ (method = "rise" /\ EqualStarts(main) /\ EqualPeaks(main))
             => result.direction = B_TO_A
       /\ (method = "com" /\ EqualComs(com_a, com_b)) => result.direction = B_TO_A
       /\ (method = "hybrid" /\ EqualComs(com_a, com_b) /\ Confirmed(main))
             => result.direction = B_TO_A
       /\ (method = "hybrid" /\ EqualPeaks(main) /\ (com_a = None \/ com_b = None))
             => result.direction = B_TO_A

\* C28: as stated, except that the Center-of-Mass detector returns B_TO_A
\* on equal centers of mass only when both side maxima reach min_rise; with
\* a side maximum below min_rise it returns UNKNOWN with a gap of 0.
C28_TieIsBToAWhenDecided ==
    LET main == MainRisesOf(readings, config)
        com_a == ComOf(1)
        com_b == ComOf(2)
    IN /\ (method = "rise" /\ EqualStarts(main) /\ EqualPeaks(main))
             => result.direction = B_TO_A
       /\ (method = "hybrid" /\ EqualPeaks(main) /\ (com_a = None \/ com_b = None))
             => result.direction = B_TO_A
       /\ (method = "hybrid" /\ EqualComs(com_a, com_b) /\ Confirmed(main))
             => result.direction = B_TO_A
       /\ (method = "com" /\ EqualComs(com_a, com_b)) =>
             IF /\ result.side_a_max >= config.min_rise
                /\ result.side_b_max >= config.min_rise
             THEN result.direction = B_TO_A
             ELSE result.direction = UNKNOWN /\ result.peak_gap_ms = Some(0)

\* equal centers of mass decided by the Center-of-Mass detector
C28_Witness ==
    /\ method = "com"
    /\ EqualComs(ComOf(1), ComOf(2))
    /\ result.side_a_max >= config.min_rise
    /\ result.side_b_max >= config.min_rise
    /\ result.direction = B_TO_A
    /\ result.peak_gap_ms = Some(0)

(***************************************************************************)
(* The configuration fields the Center-of-Mass detector reads.             *)
(***************************************************************************)
\* smoothing_window and max_peak_gap_ms values of the second run
VariedSmoothingWindows == {1, DeclaredMaxWindow}

VariedMaxPeakGaps == {0, 120}

\* configurations that agree with the state's one on min_rise: the widest
\* window with no gap allowed, and no smoothing with a wide gap
SameMinRise ==
    {Config(SetMax(VariedSmoothingWindows), config.min_rise, SetMin(VariedMaxPeakGaps)),
     Config(SetMin(VariedSmoothingWindows), config.min_rise, SetMax(VariedMaxPeakGaps))}

\* C29: the Center-of-Mass detector returns the same result on the same
\* readings under every configuration with the same min_rise, whatever its
\* smoothing_window and max_peak_gap_ms.
C29_ComIgnoresWindowAndGap ==
    method = "com" =>
        \A cfg \in SameMinRise : Detect("com", readings, cfg) = result

\* a direction returned with centers of mass further apart than
\* max_peak_gap_ms, and also under a max_peak_gap_ms of 0
C29_Witness ==
    /\ method = "com"
    /\ result.direction # UNKNOWN
    /\ Val(result.peak_gap_ms) > config.max_peak_gap_ms
    /\ Detect("com", readings, Config(DeclaredMaxWindow, config.min_rise, 0)) = result

(***************************************************************************)
(* Readings whose side is neither 1 nor 2.                                 *)
(***************************************************************************)
\* the readings whose side is not 2, as indices into the list
NotOfSideA(rs) == {i \in 1..Len(rs) : rs[i].side # 2}

\* the sum of the proximity of the readings with the indices in idx
ProximitySum(rs, idx) == SumOver([i \in 1..Len(rs) |-> rs[i].proximity], idx)

\* the sum of all values of a signal
SignalSum(signal) == SumOver(signal, DOMAIN signal)

====
